---- MODULE Spec2Model ----
(***************************************************************************)
(* The venue crawlers of ICLR26_Paper_Finder (additional_venues/AAAI.py,   *)
(* ACL.py, EMNLP.py, ECCV.py, CVPR_ICCV.py) as one state machine: a run of *)
(* one crawler script, one HTTP attempt per step (Spec, SpecLive); and the *)
(* pure steps of the scripts on their own: citation parsing (SpecCite),    *)
(* link extraction (SpecLinks), detail-page parsing (SpecDetail), the AAAI *)
(* listing URL (SpecBase), abstract extraction (SpecAbstract), the JSON     *)
(* entries ICML_ICLR_NeurIPS.py makes of OpenReview notes (SpecNotes) and  *)
(* its choice of an OpenReview source (SpecQuery); and the paging of the   *)
(* search UI in app.py (SpecPages).                                        *)
(***************************************************************************)
EXTENDS Integers, Sequences, FiniteSets, TLC

\* ------------------------------------------------------------------ bounds
MaxRetries == 2   \* --retries ranges over 1..MaxRetries
MaxAnchors == 2   \* anchors on one fetched listing / section page
MaxBody == 3      \* tokens in one citation response body
MaxNotes == 2     \* notes returned by one OpenReview query
MaxKeywords == 2  \* keyword tags, and keyword badges, on one detail page
MaxSlashes == 2   \* trailing slashes of a --proceeding-url value
MaxBlock == 10    \* characters in one text block of a detail page
MaxRecords == 21  \* records one search returns
MaxClicks == 3    \* how far page_state is followed from page 1

\* ------------------------------------------------------------ option values
None == <<>>
Some(x) == <<x>>

Range(s) == {s[i] : i \in 1..Len(s)}

RECURSIVE SeqsUpTo(_, _)
SeqsUpTo(S, n) ==
  IF n = 0 THEN {<<>>}
  ELSE LET shorter == SeqsUpTo(S, n - 1)
       IN shorter \cup {Append(s, x) : s \in {t \in shorter : Len(t) = n - 1}, x \in S}

\* ------------------------------------------------------------------- URLs
\* An href on a page names a paper and the shape of the URL written for it:
\*   plain  .../view/7        frag   .../view/7#top     slash  .../view/7/
\*   file   .../view/7/99     query  .../view/7?x=1
\* rel says whether the href is written relative to the page.
Papers == {1, 2}
Forms == {"plain", "frag", "slash", "file", "query"}
Hrefs == [id : Papers, form : Forms, rel : BOOLEAN]
Urls == [id : Papers, form : Forms]

\* urljoin(base, href): the absolute URL; path, query and fragment are kept.
urljoin(h) == [id |-> h.id, form |-> h.form]

\* Python's string order on the absolute URLs of one site ('#' < '/' < '?').
FormRank(f) ==
  CASE f = "plain" -> 0 [] f = "frag" -> 1 [] f = "slash" -> 2
    [] f = "file" -> 3 [] f = "query" -> 4
UrlKey(u) == u.id * 5 + FormRank(u.form)

\* the links in descending order: sorted(..., reverse=True)
RECURSIVE sortedReverse(_)
sortedReverse(S) ==
  IF S = {} THEN <<>>
  ELSE LET m == CHOOSE x \in S : \A y \in S : UrlKey(x) >= UrlKey(y)
       IN <<m>> \o sortedReverse(S \ {m})

\* sorted(S) for a set of URLs
RECURSIVE sorted(_)
sorted(S) ==
  IF S = {} THEN <<>>
  ELSE LET m == CHOOSE x \in S : \A y \in S : UrlKey(x) <= UrlKey(y)
       IN <<m>> \o sorted(S \ {m})

\* re.match(r"^/index\.php/AAAI/article/view/(\d+)(?:/)?$", urlparse(full).path):
\* urlparse drops query and fragment, the pattern allows one trailing slash.
MatchesAAAI(u) == u.form \in {"plain", "frag", "slash", "query"}
\* PAPER_ID_RE.match(path.strip()) on the href itself: ...\d+/?$
MatchesACL(u) == u.form \in {"plain", "slash"}
\* DETAIL_RE.match(urlparse(full).path): ..._paper\.php$
MatchesECCV(u) == u.form \in {"plain", "frag", "query"}
\* "dt.ptitle a, div.ptitle a, h4.ptitle a" with an href and a title
MatchesCVF(u) == u.form # "file"

get_paper_urls_from_track_page(track_html) ==
  sorted({urljoin(h) : h \in {a \in Range(track_html) : MatchesAAAI(urljoin(a))}})

get_paper_urls(volume_html) ==
  sorted({urljoin(h) : h \in {a \in Range(volume_html) : MatchesACL(a)}})

get_detail_urls_for_year(index_html) ==
  sorted({urljoin(h) : h \in {a \in Range(index_html) : MatchesECCV(urljoin(a))}})

\* items in page order, one per anchor, not de-duplicated
RECURSIVE parse_list_titles(_)
parse_list_titles(html) ==
  IF html = <<>> THEN <<>>
  ELSE LET u == urljoin(Head(html))
       IN (IF MatchesCVF(u) THEN <<u>> ELSE <<>>) \o parse_list_titles(Tail(html))

\* The landing page of the AAAI proceedings: each anchor names a section page,
\* says which heuristic finds it and what its URL ends in.
Tracks == {1, 2}
RootAnchors == [t : Tracks, how : {"text", "heading", "slug", "none"}, ext : {"html", "pdf"}]

RECURSIVE SortedInts(_)
SortedInts(S) ==
  IF S = {} THEN <<>>
  ELSE LET m == CHOOSE x \in S : \A y \in S : x <= y
       IN <<m>> \o SortedInts(S \ {m})

get_technical_track_urls(index_html) ==
  SortedInts({a.t : a \in {b \in Range(index_html) : b.how # "none" /\ b.ext = "html"}})

\* ------------------------------------------------------- citation bodies
\* A response body is a sequence of tokens: characters and tags.
TextTokens == {"@", "{", "x", " "}
Tokens == TextTokens \cup {"<pre>", "</pre>"}
IsTag(t) == t \in {"<pre>", "</pre>", "<html>", "</html>"}

RECURSIVE LStrip(_)
LStrip(s) == IF s # <<>> /\ Head(s) = " " THEN LStrip(Tail(s)) ELSE s
RECURSIVE RStrip(_)
RStrip(s) == IF s # <<>> /\ s[Len(s)] = " " THEN RStrip(SubSeq(s, 1, Len(s) - 1)) ELSE s
\* str.strip()
strip(s) == RStrip(LStrip(s))

Contains(s, t) == \E i \in 1..Len(s) : s[i] = t

\* BeautifulSoup(txt).find("pre"): the first <pre>, closed by the next </pre>
\* or by the end of the document; get_text() keeps its characters, not its tags.
HasPre(s) == Contains(s, "<pre>")
PreText(s) ==
  LET open == CHOOSE i \in 1..Len(s) : s[i] = "<pre>" /\ \A j \in 1..(i - 1) : s[j] # "<pre>"
      ends == {j \in (open + 1)..Len(s) : s[j] = "</pre>"}
      close == IF ends = {} THEN Len(s) + 1
               ELSE CHOOSE j \in ends : \A m \in ends : j <= m
  IN SelectSeq(SubSeq(s, open + 1, close - 1), LAMBDA t : ~IsTag(t))

\* x or None
OrNone(s) == IF s = <<>> THEN None ELSE Some(s)

\* AAAI.py 248-255 and EMNLP.py 152-158
UnwrapCitation(txt) ==
  IF Contains(txt, "@") /\ Contains(txt, "{") THEN Some(strip(txt))
  ELSE OrNone(IF HasPre(txt) THEN strip(PreText(txt)) ELSE strip(txt))

\* ACL.py 151: br.text.strip() if br.text else None
StripCitation(txt) == IF txt # <<>> THEN Some(strip(txt)) ELSE None

CiteVenues == {"AAAI", "ACL", "EMNLP"}
StoreCitation(v, txt) == IF v = "ACL" THEN StripCitation(txt) ELSE UnwrapCitation(txt)

\* ------------------------------------------------------- detail pages
\* What the parsers read of a detail page. Texts are token sequences.
\*   meta_title  content of <meta name="citation_title">, None without the tag
\*   heading     text of the first heading the selector finds, None without one
\*   bold, line  ECCV only: first <b>/<strong> text, first line of the page text
\*   kw_meta     contents of the <meta name="citation_keywords"> tags, in order
\*   badges      texts of the keyword badges, in order
EmptyPage ==
  [meta_title |-> None, heading |-> None, bold |-> None, line |-> None,
   kw_meta |-> <<>>, badges |-> <<>>]

MetaContents == {<<>>, <<" ">>, <<"M">>, <<"M", " ">>}
HeadingTexts == {<<>>, <<"H">>}
\* <<"B">> stands for a bold text of more than 8 characters, <<"b">> for a short one
BoldTexts == {<<"b">>, <<"B">>}
IsLong(t) == t = <<"B">>
KeywordTexts == {<<"a">>, <<"a", " ">>, <<"b">>}

Opt(S) == {None} \cup {Some(x) : x \in S}
TextOf(o) == IF o = None THEN <<>> ELSE o[1]

\* the first text of a list of candidates that is not empty, else nothing
RECURSIVE FirstText(_)
FirstText(cands) ==
  IF cands = <<>> THEN <<>>
  ELSE IF Head(cands) # <<>> THEN Head(cands) ELSE FirstText(Tail(cands))

\* the visible heading tried before the metadata tag
TitleCandidatesHeadingFirst(pg) == <<TextOf(pg.heading), strip(TextOf(pg.meta_title))>>

\* AAAI 135-142, ACL 58-65, EMNLP the same: mt["content"].strip() when the tag
\* has content, and `if not title:` the text of the first heading
TitleCandidates(pg) == <<strip(TextOf(pg.meta_title)), TextOf(pg.heading)>>

\* ECCV 97-110: h1 / h2 / title with text, then a long bold text, then the
\* first line of the page text; the metadata tag is not read
TitleCandidatesECCV(pg) ==
  <<TextOf(pg.heading),
    IF IsLong(TextOf(pg.bold)) THEN TextOf(pg.bold) ELSE <<>>,
    TextOf(pg.line)>>

\* "title": title or None
ParseTitle(v, pg) ==
  OrNone(FirstText(IF v = "ECCV" THEN TitleCandidatesECCV(pg) ELSE TitleCandidates(pg)))

\* list(dict.fromkeys(ks))
RECURSIVE Dedupe(_)
Dedupe(ks) ==
  IF ks = <<>> THEN <<>>
  ELSE LET init == Dedupe(SubSeq(ks, 1, Len(ks) - 1))
           k == ks[Len(ks)]
       IN IF k \in Range(init) THEN init ELSE Append(init, k)

\* [c.strip() for c in contents if c]
RECURSIVE StripNonEmpty(_)
StripNonEmpty(cs) ==
  IF cs = <<>> THEN <<>>
  ELSE (IF Head(cs) # <<>> THEN <<strip(Head(cs))>> ELSE <<>>) \o StripNonEmpty(Tail(cs))

\* the badge texts (get_text(" ", strip=True)) that are not empty
BadgeTexts(pg) == SelectSeq(StripNonEmpty(pg.badges), LAMBDA t : t # <<>>)

\* AAAI 161-174 and ACL 68-77: the metadata keywords as they are; the badges,
\* de-duplicated, only when there is no metadata keyword.
\* EMNLP 69-81, 112: "keywords": list(dict.fromkeys(keywords)) for both sources.
\* ECCV 117: "keywords": []
ParseKeywords(v, pg) ==
  LET metas == StripNonEmpty(pg.kw_meta) IN
  CASE v \in {"AAAI", "ACL"} -> IF metas # <<>> THEN metas ELSE Dedupe(BadgeTexts(pg))
    [] v = "EMNLP" ->
         LET ks == SelectSeq(metas, LAMBDA t : t # <<>>)
         IN Dedupe(IF ks # <<>> THEN ks ELSE BadgeTexts(pg))
    [] v = "ECCV" -> <<>>

\* the title and keywords of parse_paper_detail / parse_detail
parse_paper_detail(v, pg) == [title |-> ParseTitle(v, pg), keywords |-> ParseKeywords(v, pg)]

\* ------------------------------------------------------ abstract blocks
\* A text is known by the block of the page it is taken from, the number of
\* leading characters of the block left out, and its length.
CutLen == 9
BlockLens == 0..MaxBlock
Text(src, n) == [src |-> src, from |-> 0, len |-> n]

\* `if abstract:` / `if not abstract:` on None or a string
Truthy(a) == a # None /\ a[1].len > 0

\* abstract[9:]
CutPrefix(t) ==
  LET cut == IF t.len < CutLen THEN t.len ELSE CutLen
  IN [t EXCEPT !.from = @ + cut, !.len = @ - cut]

\* What the abstract extractors read of a page.
\*   meta   AAAI: content of <meta name="citation_abstract">: blank says the
\*          content is only whitespace, len is its length after strip()
\*   node   AAAI: the abstract container: text of its first <p>, and its own text
\*   label  ECCV: the page has a text node 'Abstract'
\*   sib    ECCV: length of the joined sibling texts after the label (0: none)
\*   word   ECCV: the text between the word 'Abstract' and the end marker in
\*          the whole page text, label removed; None without the word
NoAbsPage == [meta |-> None, node |-> None, label |-> FALSE, sib |-> 0, word |-> None]

MetaAbstracts == {[blank |-> TRUE, len |-> 0]} \cup {[blank |-> FALSE, len |-> n] : n \in BlockLens}
AbstractNodes ==
  {nd \in [para : Opt(BlockLens), text : BlockLens] : nd.para # None => nd.para[1] <= nd.text}

\* AAAI 145-158 and 179-180
ExtractAbstractAAAI(pg) ==
  LET a1 == IF pg.meta # None /\ (pg.meta[1].blank \/ pg.meta[1].len > 0)
            THEN Some(Text("meta", pg.meta[1].len)) ELSE None
      a2 == IF Truthy(a1) \/ pg.node = None THEN a1
            ELSE LET nd == pg.node[1]
                 IN IF nd.para # None /\ nd.para[1] > 0
                    THEN Some(Text("para", nd.para[1]))
                    ELSE Some(Text("node", nd.text))
  IN IF Truthy(a2) THEN Some(CutPrefix(a2[1])) ELSE a2

\* ECCV 48-91: the sibling texts cut by 9 characters and returned as they are;
\* else the text after the word 'Abstract', not cut, or None when it is empty
\* (the trimming of spaces and quotes after the cut is left out)
extract_abstract_from_detail_soup(pg) ==
  IF pg.label /\ pg.sib > 0 THEN Some(CutPrefix(Text("sib", pg.sib)))
  ELSE IF pg.word # None /\ pg.word[1] > 0 THEN Some(Text("word", pg.word[1]))
  ELSE None

ExtractAbstract(v, pg) ==
  IF v = "ECCV" THEN extract_abstract_from_detail_soup(pg) ELSE ExtractAbstractAAAI(pg)

\* ------------------------------------------------------------ the fetcher
Outcomes == {"ok", "http", "exc"}   \* status 200, another status, sess.get raised

\* the locals of one polite_get call; outcomes and delay are its history
NewCall == [k |-> 0, last_exc |-> FALSE, outcomes |-> <<>>, delay |-> 0, result |-> "pending"]

\* the loop bound off by one: range(retries + 1)
ExhaustedLate(k, r) == k > r

\* for k in range(retries): the loop is over once k attempts have failed
Exhausted(k, r) == k >= r

\* the same delay after every failed attempt
BackoffDelayFlat(k) == 1

\* the loop index taken as the factor: time.sleep(sleep_s * k)
BackoffDelayFromIndex(k) == k

\* time.sleep(sleep_s * (k + 1)), in units of sleep_s, for the loop index k
BackoffDelay(k) == k + 1

\* any response taken as a success, whatever its status
IsSuccessAny(o) == o # "exc"

\* if r.status_code == 200: return r
IsSuccess(o) == o = "ok"

\* what polite_get raises after the loop
Raised(last_exc) == IF last_exc THEN "exc" ELSE "runtime"

\* One iteration of polite_get's loop with outcome o (a call that has ended is
\* followed by a new call): returns on 200, otherwise remembers an exception,
\* sleeps sleep_s * (k + 1) and, after the last iteration, raises.
polite_get(c, o, r) ==
  LET c0 == IF c.result = "pending" THEN c ELSE NewCall
      c1 == [c0 EXCEPT !.outcomes = Append(@, o)]
  IN IF IsSuccess(o) THEN [c1 EXCEPT !.result = "ok"]
     ELSE LET c2 == [c1 EXCEPT !.k = @ + 1,
                               !.last_exc = (@ \/ o = "exc"),
                               !.delay = @ + BackoffDelay(c0.k)]
          IN IF Exhausted(c2.k, r) THEN [c2 EXCEPT !.result = Raised(c2.last_exc)] ELSE c2

\* ------------------------------------------------------------------ state
VARIABLES
  venue, retries,            \* which script runs, and its --retries
  pc,                        \* where the run is
  session,                   \* the requests.Session of the run
  list_idx,                  \* CVPR_ICCV: index into list_urls
  call,                      \* the polite_get call in progress, or the last one
  slept,                     \* a time.sleep ran since the last request
  undelayed,                 \* requests issued with no sleep before them
  issued,                    \* history: the kinds of request issued so far
  track_urls, t_idx,         \* AAAI: section pages and the loop over them
  paper_urls, p_idx, seen,   \* detail links, the loop over them, the seen set
  results, log, diag,        \* collected records, [warn] lines, "No ... found" line
  output,                    \* the JSON file main writes
  visited,                   \* history: detail links requested
  failed,                    \* history: detail links whose except handler ran, and why
  bibfailed, trackfailed,    \* history: failed citation and section fetches
  body, stored,              \* citation parsing alone: response body, stored text
  page, links,               \* link extraction alone: listing page, extracted links
  notes, json_data,          \* the OpenReview script: notes received, entries saved
  detail, rec,               \* detail parsing alone: the page, the parsed record
  year, proceeding_url,      \* AAAI arguments alone: --year, --proceeding-url
  base_url,                  \* and the URL of the first request
  abspage, abstract,         \* abstract extraction alone: the page, the abstract
  n_records, page_state, results_box,\* app.py: records_state (its length), page_state, the page shown
  conf_name, state, inv_idx, queried, found\* get_submissions: its arguments, loop index, the sources queried, its return value

conf == <<venue, retries>>
loopv == <<list_idx, track_urls, t_idx, paper_urls, p_idx, seen>>
outv == <<results, log, diag, output>>
histv == <<visited, failed, bibfailed, trackfailed>>
citev == <<body, stored>>
linkv == <<page, links>>
notev == <<notes, json_data>>
detv == <<detail, rec>>
basev == <<year, proceeding_url, base_url>>
absv == <<abspage, abstract>>
pagev == <<n_records, page_state, results_box>>
orv == <<conf_name, state, inv_idx, queried, found>>
purev == <<citev, linkv, notev, detv, basev, absv, pagev, orv>>
vars == <<conf, pc, session, call, slept, undelayed, issued, loopv, outv, histv, purev>>

Venues == {"AAAI", "ACL", "EMNLP", "ECCV", "CVPR"}
\* CVPR_ICCV.py: polite_get(url, sess, retries=3, ...) is always called with the default
CvfRetries == 3
\* CVPR_ICCV.py: list_urls has two entries
NumListUrls == 2

\* the pages served to a run: anchors to papers written plainly, with a trailing
\* slash, or to a file of the paper
RunHrefs == {h \in Hrefs : h.form \in {"plain", "slash", "file"} /\ ~h.rel}
LinkPages == SeqsUpTo(RunHrefs, MaxAnchors)
RootPages == SeqsUpTo(RootAnchors, MaxAnchors)
\* what a detail page can be: with or without a citation link / block, or one
\* the parser raises on
DetailPages == {"bib", "nobib", "malformed"}
\* citation bodies served to a run
RunBodies == {<<"@", "{", "x">>, <<" ">>}

Rec(u, b) == [link |-> u, bib |-> b]

\* nothing to parse alone
NoCite == body = <<>> /\ stored = None
NoLinks == page = <<>> /\ links = <<>>
NoNotes == notes = <<>> /\ json_data = <<>>
NoDetail == detail = EmptyPage /\ rec = [title |-> None, keywords |-> <<>>]
NoBase == year = 0 /\ proceeding_url = None /\ base_url = None
NoAbstract == abspage = NoAbsPage /\ abstract = None
NoPages == n_records = 0 /\ page_state = 1 /\ results_box = None
NoQuery == conf_name = "none" /\ state = "none" /\ inv_idx = 0 /\ queried = <<>> /\ found = None

\* nothing has run yet
Idle ==
  /\ session = "none"
  /\ list_idx = 1
  /\ call = NewCall
  /\ slept = FALSE
  /\ undelayed = {} /\ issued = {}
  /\ track_urls = <<>> /\ t_idx = 0
  /\ paper_urls = <<>> /\ p_idx = 0 /\ seen = {}
  /\ results = <<>> /\ log = <<>> /\ diag = "none"
  /\ output = None
  /\ visited = {} /\ failed = {} /\ bibfailed = {} /\ trackfailed = {}

Init ==
  /\ venue \in Venues
  /\ retries \in (IF venue = "CVPR" THEN {CvfRetries} ELSE 1..MaxRetries)
  /\ pc = "start"
  /\ Idle
  /\ NoCite /\ NoLinks /\ NoNotes /\ NoDetail /\ NoBase /\ NoAbstract /\ NoPages /\ NoQuery

\* ---------------------------------------------------------------- helpers
\* a request goes out at this step: note it when no sleep came before it
Issue(site, c) ==
  /\ call' = c
  /\ undelayed' = IF slept THEN undelayed
                  ELSE undelayed \cup {[kind |-> site, attempt |-> Len(c.outcomes)]}
  /\ issued' = issued \cup {site}

\* a session made without a with block: nothing closes it
LeaveSession(s) == s

\* with requests.Session() as sess: leaving the block, by return or by an
\* exception, closes the session
ExitSession(s) == "closed"

\* the seen set ignored: every entry of the list is requested
NextUnseenNoCheck(urls, i, sn) == i

\* the first index >= i of a link not in sn (if purl in seen: continue)
RECURSIVE NextUnseen(_, _, _)
NextUnseen(urls, i, sn) ==
  IF i > Len(urls) THEN i
  ELSE IF urls[i] \in sn THEN NextUnseen(urls, i + 1, sn) ELSE i

\* the time.sleep before the citation request left out
SleepsBeforeNoBib(site) == site \notin {"listing", "bib"}

\* time.sleep(sleep_s) stands before the polite_get of a section page, a detail
\* page and a citation; nothing stands before the one of a listing page
SleepsBefore(site) == site # "listing"

\* break instead of continue in the except handler
AfterSkipBreak(urls, i) == Len(urls) + 1

\* where the detail loop goes on after the except handler of link i: continue
AfterSkip(urls, i) == i + 1

\* the loop moves to the first unseen link from index i: seen.add, time.sleep,
\* and the request is next; or the loop is over and the function returns
\* (s: whether a sleep followed the last request)
StepDetail(urls, i, s) ==
  LET j == NextUnseen(urls, i, seen)
  IN IF j > Len(urls)
     THEN /\ pc' = "returned" /\ session' = ExitSession(session)
          /\ p_idx' = j /\ seen' = seen /\ slept' = s
     ELSE /\ pc' = "detail" /\ session' = session
          /\ p_idx' = j /\ seen' = seen \cup {urls[j]}
          /\ slept' = (s \/ SleepsBefore("detail"))

\* the early return left out: the loop over the empty list runs, and the
\* function returns after it
FallThrough(d, s) ==
  /\ pc' = "returned" /\ session' = ExitSession(session) /\ diag' = diag /\ slept' = s

\* return [] before the detail loop, with the diagnostic d
ReturnEmpty(d, s) ==
  /\ pc' = "returned" /\ session' = ExitSession(session) /\ diag' = d /\ slept' = s

\* the link extractor each script applies to its listing / section page
ExtractLinks(v, pg) ==
  CASE v = "AAAI" -> get_paper_urls_from_track_page(pg)
    [] v \in {"ACL", "EMNLP"} -> get_paper_urls(pg)
    [] v = "ECCV" -> get_detail_urls_for_year(pg)
    [] v = "CVPR" -> parse_list_titles(pg)

\* every link list a script can extract from a served page, and every list of
\* section pages the AAAI landing page can give
Extracted == [v \in Venues |-> {ExtractLinks(v, pg) : pg \in LinkPages}]
TrackLists == {get_technical_track_urls(pg) : pg \in RootPages}

Warn(k, u) == [kind |-> k, url |-> u]

\* what the except handler of the detail fetch leaves in results for link u:
\* CVPR_ICCV keeps a record with empty fields, the other scripts skip the link
SkippedRecord(v, u) == IF v = "CVPR" THEN <<Rec(u, None)>> ELSE <<>>
\* an except handler that swallows the failure silently in every script
SkipWarningSilent(v, u) == <<>>

\* and what it prints: CVPR_ICCV prints nothing
SkipWarning(v, u) == IF v = "CVPR" THEN <<>> ELSE <<Warn("paper", u)>>

\* does the script fetch a citation after parsing detail page pg
FetchesBib(v, pg) == v \in {"ACL", "EMNLP"} \/ (v = "AAAI" /\ pg = "bib")
\* the citation parsed from the detail page itself (CVPR_ICCV: div.bibref)
PageBib(v, pg) == IF v = "CVPR" /\ pg = "bib" THEN Some(<<"@", "{", "x">>) ELSE None

\* time.sleep(sleep_s * (k + 1)) after a failed attempt; the loop goes on
Backoff ==
  /\ slept' = TRUE
  /\ UNCHANGED <<conf, pc, session, loopv, outv, purev>>

\* ---------------------------------------------------------------- actions
\* with requests.Session() as sess:
StartRun ==
  /\ pc = "start"
  /\ pc' = "listing" /\ session' = "open"
  /\ slept' = SleepsBefore("listing")
  /\ UNCHANGED <<conf, call, undelayed, issued, loopv, outv, histv, purev>>

\* AAAI 204-208, ACL 128-132, EMNLP 128-132, ECCV 131-135: one attempt at the
\* root listing page, and what follows the call up to the next request
FetchListing ==
  /\ pc = "listing" /\ venue # "CVPR"
  /\ \E o \in Outcomes :
       LET c == polite_get(call, o, retries) IN
       /\ Issue("listing", c)
       /\ UNCHANGED histv
       /\ IF c.result = "pending" THEN Backoff
          ELSE IF c.result = "ok" THEN
            IF venue = "AAAI"
            THEN \E tu \in TrackLists :
                   /\ track_urls' = tu
                   /\ IF tu = <<>>
                      THEN ReturnEmpty("no_tracks", FALSE) /\ t_idx' = t_idx
                      ELSE /\ pc' = "track" /\ session' = session /\ diag' = diag
                           /\ slept' = SleepsBefore("track") /\ t_idx' = 1
                   /\ UNCHANGED <<conf, list_idx, paper_urls, p_idx, seen,
                                  results, log, output, purev>>
            ELSE \E urls \in Extracted[venue] :
                   /\ paper_urls' = urls
                   /\ IF urls = <<>>
                      THEN ReturnEmpty("no_papers", FALSE) /\ UNCHANGED <<p_idx, seen>>
                      ELSE StepDetail(urls, 1, FALSE) /\ diag' = diag
                   /\ UNCHANGED <<conf, list_idx, track_urls, t_idx,
                                  results, log, output, purev>>
          ELSE \* polite_get raised and nothing catches it
            /\ pc' = "crashed" /\ session' = ExitSession(session) /\ slept' = TRUE
            /\ UNCHANGED <<conf, loopv, outv, purev>>

\* a loop that tries the same entry again
NextIndexStuck(i) == i

\* for u in list_urls / for turl in track_urls: the loop moves to the next entry
NextIndex(i) == i + 1

\* CVPR_ICCV 142-149: for u in list_urls, after an empty page or an exception
NextListUrl(s) ==
  /\ IF list_idx < NumListUrls
     THEN /\ pc' = pc /\ session' = session /\ list_idx' = NextIndex(list_idx)
          /\ slept' = (s \/ SleepsBefore("listing"))
     ELSE /\ pc' = "returned" /\ session' = ExitSession(session) /\ list_idx' = list_idx
          /\ slept' = s
  /\ UNCHANGED <<conf, track_urls, t_idx, paper_urls, p_idx, seen, outv, purev>>

\* CVPR_ICCV 139-152: one attempt at a list page
FetchListingCVF ==
  /\ pc = "listing" /\ venue = "CVPR"
  /\ \E o \in Outcomes :
       LET c == polite_get(call, o, retries) IN
       /\ Issue("listing", c)
       /\ UNCHANGED histv
       /\ IF c.result = "pending" THEN Backoff
          ELSE IF c.result = "ok" THEN
            \E entries \in Extracted[venue] :
              IF entries # <<>>
              THEN /\ paper_urls' = entries
                   /\ StepDetail(entries, 1, FALSE)
                   /\ UNCHANGED <<conf, list_idx, track_urls, t_idx, outv, purev>>
              ELSE NextListUrl(FALSE)
          ELSE NextListUrl(TRUE)

\* AAAI 212-226: after the section page t_idx: the next one, or the end of the
\* loop, de-duplication and the start of the detail loop
TrackDone(acc, s) ==
  IF t_idx < Len(track_urls)
  THEN /\ t_idx' = NextIndex(t_idx) /\ paper_urls' = acc
       /\ pc' = pc /\ session' = session /\ diag' = diag
       /\ slept' = (s \/ SleepsBefore("track"))
       /\ UNCHANGED <<p_idx, seen>>
  ELSE LET urls == sorted(Range(acc)) IN
       /\ t_idx' = t_idx /\ paper_urls' = urls
       /\ IF urls = <<>>
          THEN ReturnEmpty("no_papers", s) /\ UNCHANGED <<p_idx, seen>>
          ELSE StepDetail(urls, 1, s) /\ diag' = diag

\* AAAI 212-220: one attempt at a section page
FetchTrack ==
  /\ pc = "track"
  /\ \E o \in Outcomes :
       LET c == polite_get(call, o, retries)
           turl == track_urls[t_idx]
       IN
       /\ Issue("track", c)
       /\ UNCHANGED <<visited, failed, bibfailed>>
       /\ IF c.result = "pending" THEN Backoff /\ UNCHANGED trackfailed
          ELSE /\ UNCHANGED <<conf, list_idx, track_urls, results, output, purev>>
               /\ IF c.result = "ok"
                  THEN \E urls \in Extracted[venue] :
                         /\ TrackDone(paper_urls \o urls, FALSE)
                         /\ UNCHANGED <<log, trackfailed>>
                  ELSE /\ TrackDone(paper_urls, TRUE)
                       /\ log' = Append(log, Warn("track", turl))
                       /\ trackfailed' = trackfailed \cup {turl}

\* the detail fetch of every script: AAAI 229-243, ACL 134-148, EMNLP 134-148,
\* ECCV 137-150, CVPR_ICCV 155-175: one attempt at paper_urls[p_idx]
FetchDetail ==
  /\ pc = "detail"
  /\ \E o \in Outcomes :
       LET c == polite_get(call, o, retries)
           u == paper_urls[p_idx]
       IN
       /\ Issue("detail", c)
       /\ visited' = visited \cup {u}
       /\ UNCHANGED <<bibfailed, trackfailed>>
       /\ IF c.result = "pending" THEN Backoff /\ UNCHANGED failed
          ELSE \E pg \in (IF c.result = "ok" THEN DetailPages ELSE {"none"}) :
            /\ UNCHANGED <<conf, list_idx, track_urls, t_idx, paper_urls, diag, output, purev>>
            /\ IF c.result = "ok" /\ pg # "malformed"
               THEN /\ UNCHANGED <<failed, log>>
                    /\ IF FetchesBib(venue, pg)
                       THEN /\ pc' = "bib" /\ slept' = SleepsBefore("bib")
                            /\ UNCHANGED <<session, p_idx, seen, results>>
                       ELSE /\ results' = Append(results, Rec(u, PageBib(venue, pg)))
                            /\ StepDetail(paper_urls, p_idx + 1, FALSE)
               ELSE \* except Exception: polite_get or the parser raised
                    /\ failed' = failed \cup {[url |-> u,
                                                 why |-> IF c.result = "ok" THEN "parse" ELSE "fetch"]}
                    /\ results' = results \o SkippedRecord(venue, u)
                    /\ log' = log \o SkipWarning(venue, u)
                    /\ StepDetail(paper_urls, AfterSkip(paper_urls, p_idx), c.result # "ok")

\* AAAI 243-258 and ACL 148-155: one attempt at the citation of paper_urls[p_idx]
FetchBib ==
  /\ pc = "bib" /\ venue \in {"AAAI", "ACL"}
  /\ \E o \in Outcomes :
       LET c == polite_get(call, o, retries)
           u == paper_urls[p_idx]
       IN
       /\ Issue("bib", c)
       /\ UNCHANGED <<visited, failed, trackfailed>>
       /\ IF c.result = "pending" THEN Backoff /\ UNCHANGED bibfailed
          ELSE /\ UNCHANGED <<conf, list_idx, track_urls, t_idx, paper_urls, diag, output, purev>>
               /\ IF c.result = "ok"
                  THEN \E b \in RunBodies :
                         /\ results' = Append(results, Rec(u, StoreCitation(venue, b)))
                         /\ StepDetail(paper_urls, p_idx + 1, FALSE)
                         /\ UNCHANGED <<log, bibfailed>>
                  ELSE /\ results' = Append(results, Rec(u, None))
                       /\ log' = Append(log, Warn("bibtex", u))
                       /\ bibfailed' = bibfailed \cup {u}
                       /\ StepDetail(paper_urls, p_idx + 1, TRUE)

\* EMNLP 148-162: the citation is one sess.get, outside polite_get
FetchBibEMNLP ==
  /\ pc = "bib" /\ venue = "EMNLP"
  /\ \E o \in Outcomes :
       LET u == paper_urls[p_idx] IN
       /\ undelayed' = IF slept THEN undelayed
                       ELSE undelayed \cup {[kind |-> "bib", attempt |-> 1]}
       /\ issued' = issued \cup {"bib"}
       /\ UNCHANGED <<call, visited, failed, trackfailed>>
       /\ UNCHANGED <<conf, list_idx, track_urls, t_idx, paper_urls, diag, output, purev>>
       /\ StepDetail(paper_urls, p_idx + 1, FALSE)
       /\ IF o = "ok"
          THEN \E b \in RunBodies :
                 /\ results' = Append(results, Rec(u, StoreCitation(venue, b)))
                 /\ UNCHANGED <<log, bibfailed>>
          ELSE /\ results' = Append(results, Rec(u, None))
               /\ log' = IF o = "exc" THEN Append(log, Warn("bibtex", u)) ELSE log
               /\ bibfailed' = bibfailed \cup {u}

\* main: json.dump(records, f) after the crawl function returned
WriteOutput ==
  /\ pc = "returned"
  /\ pc' = "done" /\ output' = Some(results)
  /\ UNCHANGED <<conf, session, call, slept, undelayed, issued, loopv, results, log, diag, histv, purev>>

\* The operator stops the run (Ctrl-C): KeyboardInterrupt is not an Exception,
\* so no `except Exception` of the crawl catches it; it leaves the with block,
\* which closes the session, and main, which has no handler: json.dump is not
\* reached.
Running == {"start", "listing", "track", "detail", "bib", "returned"}
Interrupt ==
  /\ pc \in Running
  /\ pc' = "interrupted"
  /\ session' = IF session = "open" THEN ExitSession(session) ELSE session
  /\ UNCHANGED <<conf, call, slept, undelayed, issued, loopv, outv, histv, purev>>

Next ==
  \/ StartRun
  \/ FetchListing
  \/ FetchListingCVF
  \/ FetchTrack
  \/ FetchDetail
  \/ FetchBib
  \/ FetchBibEMNLP
  \/ WriteOutput
  \/ Interrupt

Spec == Init /\ [][Next]_vars

\* a step of the script itself; the script is one sequential process and every
\* request it waits for ends (answer, error or timeout), so a step that can be
\* taken is taken; the operator need not ever stop the run
Step ==
  \/ StartRun \/ FetchListing \/ FetchListingCVF \/ FetchTrack
  \/ FetchDetail \/ FetchBib \/ FetchBibEMNLP \/ WriteOutput

SpecLive == Spec /\ WF_vars(Step)

\* ------------------------------------------------- citation parsing alone
\* a BibTeX-like citation text, and the same text served inside an HTML page
Citations == {c \in SeqsUpTo(TextTokens, MaxBody) : Contains(c, "@") /\ Contains(c, "{")}
Wrap(c) == <<"<html>", "<pre>">> \o c \o <<"</pre>", "</html>">>
Bodies == SeqsUpTo(Tokens, MaxBody) \cup {Wrap(c) : c \in Citations}

\* a citation request of a run has just returned status 200 with this body
InitCite ==
  /\ venue \in CiteVenues
  /\ retries = 1
  /\ pc = "cite"
  /\ Idle
  /\ body \in Bodies /\ stored = None
  /\ NoLinks /\ NoNotes /\ NoDetail /\ NoBase /\ NoAbstract /\ NoPages /\ NoQuery

\* AAAI 248-255, ACL 151, EMNLP 152-158: rec["_bibtex"] = ...
ParseCitation ==
  /\ pc = "cite"
  /\ pc' = "cited"
  /\ stored' = StoreCitation(venue, body)
  /\ UNCHANGED <<conf, session, call, slept, undelayed, issued, loopv, outv, histv, orv, pagev, absv, body, linkv, notev, detv, basev>>

SpecCite == InitCite /\ [][ParseCitation]_vars

\* --------------------------------------------------- link extraction alone
ExtractVenues == {"AAAI", "ACL", "EMNLP", "ECCV"}
ListingPages == SeqsUpTo(Hrefs, MaxAnchors)

\* a listing / section page has just been fetched
InitLinks ==
  /\ venue \in ExtractVenues
  /\ retries = 1
  /\ pc = "extract"
  /\ Idle
  /\ page \in ListingPages /\ links = <<>>
  /\ NoCite /\ NoNotes /\ NoDetail /\ NoBase /\ NoAbstract /\ NoPages /\ NoQuery

\* AAAI 219, ACL 129, EMNLP 129, ECCV 132: urls = <the script's extractor>(page)
ExtractPage ==
  /\ pc = "extract"
  /\ pc' = "extracted"
  /\ links' = ExtractLinks(venue, page)
  /\ UNCHANGED <<conf, session, call, slept, undelayed, issued, loopv, outv, histv, orv, pagev, absv, citev, page, notev, detv, basev>>

SpecLinks == InitLinks /\ [][ExtractPage]_vars

\* ------------------------------------------- the OpenReview script alone
\* A note's content: its title and its pdf value, each possibly missing. A pdf
\* value is a string, here a sequence of pieces; Site is the piece
\* "https://openreview.net/".
Site == "https://openreview.net/"
PdfTexts == {<<>>, <<"/", "pdf">>, <<"pdf">>, <<Site, "pdf">>}
NoteTitles == {None, Some("NullX"), Some("text")}
NoteContents == [title : NoteTitles, pdf : {None} \cup {Some(v) : v \in PdfTexts}]

\* val.lstrip("/")
RECURSIVE LStripSlash(_)
LStripSlash(v) == IF v # <<>> /\ Head(v) = "/" THEN LStripSlash(Tail(v)) ELSE v

\* val.startswith("https://openreview.net/")
StartsWithSite(v) == v # <<>> /\ Head(v) = Site

\* ICML_ICLR_NeurIPS.py 116-120: the link made of the pdf value
PdfLink(val) ==
  IF val # <<>> /\ ~StartsWithSite(val) THEN <<Site>> \o LStripSlash(val) ELSE val

\* re.fullmatch(r"Null\S+", title_val)
IsNullTitle(t) == t = Some("NullX")

\* ICML_ICLR_NeurIPS.py 108-122: the entry of one note: every key of the
\* content is copied, and 'pdf' is stored as 'link'
NoteEntry(c) ==
  [title |-> c.title,
   link |-> IF c.pdf = None THEN None ELSE Some(PdfLink(c.pdf[1]))]

\* ICML_ICLR_NeurIPS.py 99-123: json_data of the notes
RECURSIVE NotesToJson(_)
NotesToJson(ns) ==
  IF ns = <<>> THEN <<>>
  ELSE (IF IsNullTitle(Head(ns).title) THEN <<>> ELSE <<NoteEntry(Head(ns))>>)
       \o NotesToJson(Tail(ns))

\* get_submissions has returned these notes
InitNotes ==
  /\ venue = "OpenReview"
  /\ retries = 1
  /\ pc = "notes"
  /\ Idle
  /\ notes \in SeqsUpTo(NoteContents, MaxNotes) /\ json_data = <<>>
  /\ NoCite /\ NoLinks /\ NoDetail /\ NoBase /\ NoAbstract /\ NoPages /\ NoQuery

\* ICML_ICLR_NeurIPS.py 99-129: main builds json_data and writes the file
SaveNotes ==
  /\ pc = "notes"
  /\ pc' = "saved"
  /\ json_data' = NotesToJson(notes)
  /\ UNCHANGED <<conf, session, call, slept, undelayed, issued, loopv, outv, histv, orv, pagev, absv, citev, linkv, notes, detv, basev>>

SpecNotes == InitNotes /\ [][SaveNotes]_vars

\* ---------------------------------------------------- detail parsing alone
ParseVenues == {"AAAI", "ACL", "EMNLP", "ECCV"}
KeywordLists == SeqsUpTo(KeywordTexts, MaxKeywords)

\* the detail pages served: an ECVA page has no keywords, and its first text
\* line exists whenever a heading or a bold has text; the pages of the other
\* sites are read for title tag, heading and keywords only
DetailContents(v) ==
  IF v = "ECCV"
  THEN {pg \in [meta_title : Opt(MetaContents), heading : Opt(HeadingTexts),
                bold : Opt(BoldTexts), line : Opt({<<"L">>}),
                kw_meta : {<<>>}, badges : {<<>>}] :
          (TextOf(pg.heading) # <<>> \/ pg.bold # None) => pg.line # None}
  ELSE [meta_title : Opt(MetaContents), heading : Opt(HeadingTexts),
        bold : {None}, line : {None},
        kw_meta : KeywordLists, badges : KeywordLists]

\* a detail page has just been fetched
InitDetail ==
  /\ venue \in ParseVenues
  /\ retries = 1
  /\ pc = "page"
  /\ Idle
  /\ detail \in DetailContents(venue) /\ rec = [title |-> None, keywords |-> <<>>]
  /\ NoCite /\ NoLinks /\ NoNotes /\ NoBase /\ NoAbstract /\ NoPages /\ NoQuery

\* AAAI 237, ACL 142, EMNLP 142, ECCV 145: rec = <the script's parser>(page)
ParseDetail ==
  /\ pc = "page"
  /\ pc' = "parsed"
  /\ rec' = parse_paper_detail(venue, detail)
  /\ UNCHANGED <<conf, session, call, slept, undelayed, issued, loopv, outv, histv, orv, pagev, absv,
                 citev, linkv, notev, detail, basev>>

SpecDetail == InitDetail /\ [][ParseDetail]_vars

\* ------------------------------------------------ the AAAI arguments alone
\* A proceedings URL "https://aaai.org/proceeding/aaai-<num>-<year>" followed
\* by some trailing slashes.
Years == 2020..2026
Editions == 34..40
ProceedingUrls == [num : Editions, year : Years, slashes : 0..MaxSlashes]

\* AAAI 34-42
proceeding_url_for(y) == [num |-> (y - 2020) + 34, year |-> y, slashes |-> 1]

\* AAAI 198: (...).rstrip("/") + "/"
BaseUrlOf(u) == [u EXCEPT !.slashes = 1]

\* AAAI 198: base_url = (proceeding_url or proceeding_url_for(year)).rstrip("/") + "/"
ResolveBaseUrl(purl, y) ==
  BaseUrlOf(IF purl # None THEN purl[1] ELSE proceeding_url_for(y))

\* main has parsed the arguments
InitBase ==
  /\ venue = "AAAI"
  /\ retries = 1
  /\ pc = "args"
  /\ Idle
  /\ year \in Years
  /\ proceeding_url \in Opt(ProceedingUrls)
  /\ base_url = None
  /\ NoCite /\ NoLinks /\ NoNotes /\ NoDetail /\ NoAbstract /\ NoPages /\ NoQuery

\* AAAI 198-204: the URL the first polite_get of the run is called with
ResolveBase ==
  /\ pc = "args"
  /\ pc' = "resolved"
  /\ base_url' = Some(ResolveBaseUrl(proceeding_url, year))
  /\ UNCHANGED <<conf, session, call, slept, undelayed, issued, loopv, outv, histv, orv, pagev, absv,
                 citev, linkv, notev, detv, year, proceeding_url>>

SpecBase == InitBase /\ [][ResolveBase]_vars

\* ------------------------------------------------ abstract extraction alone
AbstractVenues == {"AAAI", "ECCV"}
AbstractPages(v) ==
  IF v = "AAAI"
  THEN [meta : Opt(MetaAbstracts), node : Opt(AbstractNodes),
        label : {FALSE}, sib : {0}, word : {None}]
  ELSE {pg \in [meta : {None}, node : {None},
                label : BOOLEAN, sib : BlockLens, word : Opt(BlockLens)] :
          /\ ~pg.label => pg.sib = 0
          /\ pg.label => pg.word # None}

\* a detail page has just been fetched
InitAbstract ==
  /\ venue \in AbstractVenues
  /\ retries = 1
  /\ pc = "abspage"
  /\ Idle
  /\ abspage \in AbstractPages(venue) /\ abstract = None
  /\ NoCite /\ NoLinks /\ NoNotes /\ NoDetail /\ NoBase /\ NoPages /\ NoQuery

\* AAAI 144-186, ECCV 113-120: "abstract": abstract
ParseAbstract ==
  /\ pc = "abspage"
  /\ pc' = "abstracted"
  /\ abstract' = ExtractAbstract(venue, abspage)
  /\ UNCHANGED <<conf, session, call, slept, undelayed, issued, loopv, outv, histv, orv, pagev,
                 citev, linkv, notev, detv, basev, abspage>>

SpecAbstract == InitAbstract /\ [][ParseAbstract]_vars

\* ------------------------------------------------ the pages of the search UI
\* app.py 70: def render_page(records, page, per_page=10)
PerPage == 10
Min(a, b) == IF a < b THEN a ELSE b
Max(a, b) == IF a > b THEN a ELSE b

\* what results_box shows: a message, or the slice records[start:end] under
\* the footer "Page <page> / <total>"
Html(k, p, t, s, e) == [kind |-> k, page |-> p, total |-> t, start |-> s, end |-> e]

\* app.py 73: total_pages = (len(records) - 1) // per_page + 1
TotalPages(n) == (n - 1) \div PerPage + 1

\* app.py 70-97, for a list of n records
render_page(n, p) ==
  IF n = 0 THEN Html("empty", 0, 0, 0, 0)
  ELSE LET total_pages == TotalPages(n)
           pg == Max(1, Min(p, total_pages))
       IN Html("page", pg, total_pages, (pg - 1) * PerPage, Min(pg * PerPage, n))

\* the values page_state is followed through
PageStates == (1 - MaxClicks)..(1 + MaxClicks)

\* demo.launch(): records_state, page_state = gr.State([]), gr.State(1)
InitPages ==
  /\ venue = "ICLR"
  /\ retries = 1
  /\ pc = "ui"
  /\ Idle
  /\ n_records = 0 /\ page_state = 1 /\ results_box = None
  /\ NoCite /\ NoLinks /\ NoNotes /\ NoDetail /\ NoBase /\ NoAbstract /\ NoQuery

\* app.py 126-134: Search; query_db gives an error message or n records
on_search ==
  /\ pc = "ui"
  /\ \E err \in BOOLEAN, n \in 0..MaxRecords :
       IF err
       THEN /\ results_box' = Some(Html("error", 0, 0, 0, 0))
            /\ n_records' = 0 /\ page_state' = 1
       ELSE /\ results_box' = Some(render_page(n, 1))
            /\ n_records' = n /\ page_state' = 1
  /\ UNCHANGED <<conf, pc, session, call, slept, undelayed, issued, loopv, outv, histv, orv,
                 citev, linkv, notev, detv, basev, absv>>

\* app.py 145-147: Previous (direction -1) or Next (direction 1)
change_page(direction) ==
  /\ pc = "ui"
  /\ LET new_page == page_state + direction IN
       /\ new_page \in PageStates
       /\ results_box' = Some(render_page(n_records, new_page))
       /\ page_state' = new_page
  /\ UNCHANGED <<conf, pc, session, call, slept, undelayed, issued, loopv, outv, histv, orv,
                 citev, linkv, notev, detv, basev, absv, n_records>>

\* app.py 149-154: the hidden gr.Number inputs of the two buttons
PrevClick == change_page(-1)
NextClick == change_page(1)

SpecPages == InitPages /\ [][on_search \/ PrevClick \/ NextClick]_vars

\* ------------------------------------------------ get_submissions alone
ConfNames == {"ICML", "ICLR", "NeurIPS"}
States == {"Submitted", "Accepted"}

\* content["venue"] of a note: no such key, "Submitted to ...", or a decision
NoteVenues == {"absent", "submitted", "poster"}
NoteLists == SeqsUpTo(NoteVenues, MaxNotes)
\* what a client constructor or tools.iterget_notes does: raise, or give notes
Answers == {a \in [raised : BOOLEAN, notes : NoteLists] : a.raised => a.notes = <<>>}

\* ICML_ICLR_NeurIPS.py 36: v2_inv
v2_inv == "v2/Submission"
\* the two invitations in the other order
possible_invitations_swapped == <<"v1/submission", "v1/Blind_Submission">>
\* ICML_ICLR_NeurIPS.py 59-62
possible_invitations == <<"v1/Blind_Submission", "v1/submission">>

\* if state == 'Accepted' and conf_name == 'ICLR'
Filters(c, st) == st = "Accepted" /\ c = "ICLR"
NotSubmi(v) == v # "submitted"

\* 38-44: venue_str = n.content.get("venue", ""); venue_str['value'].find('Submi') < 0
\* raises for a note without the key, the default "" having no ['value']
FilterV2(ns) ==
  IF \E i \in 1..Len(ns) : ns[i] = "absent" THEN None
  ELSE Some(SelectSeq(ns, NotSubmi))

\* 66-72: venue_str.find('Submi') < 0, true of the default ""
FilterV1(ns) == Some(SelectSeq(ns, NotSubmi))

\* what one source gives inside its try: None when the except handler is
\* reached, otherwise the notes left after the filter
Yield(api, a, c, st) ==
  IF a.raised THEN None
  ELSE IF Filters(c, st)
       THEN (IF api = "v2" THEN FilterV2(a.notes) ELSE FilterV1(a.notes))
       ELSE Some(a.notes)

\* if notes: ... return notes
HasNotes(y) == y # None /\ y[1] # <<>>

\* main has parsed the arguments and calls get_submissions
InitQuery ==
  /\ venue = "OpenReview"
  /\ retries = 1
  /\ pc = "v2"
  /\ Idle
  /\ conf_name \in ConfNames /\ state \in States
  /\ inv_idx = 0 /\ queried = <<>> /\ found = None
  /\ NoCite /\ NoLinks /\ NoNotes /\ NoDetail /\ NoBase /\ NoAbstract /\ NoPages

\* 30-49: the v2 client and its one query, in one try
QueryV2 ==
  /\ pc = "v2"
  /\ \E a \in Answers :
       LET y == Yield("v2", a, conf_name, state) IN
       /\ queried' = Append(queried, [inv |-> v2_inv, answer |-> a])
       /\ IF HasNotes(y)
          THEN pc' = "got" /\ found' = Some(y[1])
          ELSE pc' = "v1client" /\ found' = found
  /\ UNCHANGED <<conf, session, call, slept, undelayed, issued, loopv, outv, histv,
                 citev, linkv, notev, detv, basev, absv, pagev, conf_name, state, inv_idx>>

\* 52-57 and 79-83: the v1 client; when it raises the function returns []
OpenV1 ==
  /\ pc = "v1client"
  /\ \E ok \in BOOLEAN :
       IF ok THEN pc' = "v1" /\ inv_idx' = 1 /\ found' = found
       ELSE pc' = "got" /\ inv_idx' = 0 /\ found' = Some(<<>>)
  /\ UNCHANGED <<conf, session, call, slept, undelayed, issued, loopv, outv, histv,
                 citev, linkv, notev, detv, basev, absv, pagev, conf_name, state, queried>>

\* 64-83: one turn of the loop over possible_invitations
QueryV1 ==
  /\ pc = "v1"
  /\ \E a \in Answers :
       LET y == Yield("v1", a, conf_name, state) IN
       /\ queried' = Append(queried, [inv |-> possible_invitations[inv_idx], answer |-> a])
       /\ IF HasNotes(y)
          THEN pc' = "got" /\ found' = Some(y[1]) /\ inv_idx' = inv_idx
          ELSE IF inv_idx = Len(possible_invitations)
               THEN pc' = "got" /\ found' = Some(<<>>) /\ inv_idx' = inv_idx
               ELSE pc' = pc /\ found' = found /\ inv_idx' = inv_idx + 1
  /\ UNCHANGED <<conf, session, call, slept, undelayed, issued, loopv, outv, histv,
                 citev, linkv, notev, detv, basev, absv, pagev, conf_name, state>>

SpecQuery == InitQuery /\ [][QueryV2 \/ OpenV1 \/ QueryV1]_vars

\* ================================================================ claims
LoopVenues == {"AAAI", "ACL", "EMNLP", "ECCV"}
Finished == {"returned", "done"}
HasRecord(u) == \E i \in 1..Len(results) : results[i].link = u
FailedUrls == {f.url : f \in failed}

\* C1: in crawl_aaai_technical, crawl_acl_volume, crawl_emnlp_volume and
\* crawl_eccv_year a fetch or parse failure on a detail link never halts the
\* run: an exception escapes only before the detail loop, every link before the
\* current one has been requested, and when the function has returned every
\* link of the list has been requested.
C1_FailureNeverHalts ==
  venue \in LoopVenues =>
    /\ pc = "crashed" => (paper_urls = <<>> /\ visited = {})
    /\ pc \in {"detail", "bib"} => \A i \in 1..(p_idx - 1) : paper_urls[i] \in visited
    /\ pc \in Finished => Range(paper_urls) \subseteq visited

\* a run that ended after a link failed and a later link gave a record
C1_Witness ==
  /\ pc = "done" /\ venue \in LoopVenues
  /\ \E i, j \in 1..Len(paper_urls) :
       i < j /\ paper_urls[i] \in FailedUrls /\ HasRecord(paper_urls[j])

\* the only failure of the run is one detail link, failed on all its attempts
OnlyOneDetailFailed ==
  /\ Cardinality(failed) = 1 /\ \A f \in failed : f.why = "fetch"
  /\ bibfailed = {} /\ trackfailed = {}
NumLinks == Cardinality(Range(paper_urls))

AllHttp(s) == \A i \in 1..Len(s) : s[i] = "http"

\* C3: a polite_get call whose every attempt returns a non-200 status issues
\* exactly `retries` requests and then raises its terminal failure: never more
\* requests, and no failure before the last of them.
C3_RetryBound ==
  AllHttp(call.outcomes) =>
    /\ Len(call.outcomes) <= retries
    /\ (Len(call.outcomes) = retries) <=> (call.result = "runtime")
    /\ Len(call.outcomes) < retries => call.result = "pending"

\* a call that gave up after more than one non-200 answer
C3_Witness ==
  /\ call.result = "runtime" /\ AllHttp(call.outcomes)
  /\ Len(call.outcomes) = retries /\ retries > 1

\* C4: the terminal failure of polite_get is a network failure exactly when
\* the last attempt raised, and an HTTP-status failure when the last attempt
\* returned a non-200 status.
C4_LastCause ==
  call.result \in {"exc", "runtime"} =>
    (call.result = "exc") <=> (call.outcomes[Len(call.outcomes)] = "exc")

\* C5: no run ends with an unhandled exception: also when the root listing
\* fetch fails on all attempts the script goes on to write its output file.
C5_NoUnhandledAbort == pc # "crashed"

\* C6 as stated: no request is issued without a delay right before it.
C6_DelayBeforeEveryRequest == undelayed = {}

\* C6 amended: a delay comes right before every section, detail and citation
\* request and before every retry; only the first attempt at a listing page
\* (the first request of a run, and in CVPR_ICCV the second list page tried
\* after an empty first one) goes out with no delay before it.
C6_DelayExceptFirstListing ==
  \A r \in undelayed : r.kind = "listing" /\ r.attempt = 1

\* an AAAI run that fetched section pages, a detail page and citations, one
\* of them after retries
C6_Witness ==
  /\ pc = "done" /\ venue = "AAAI" /\ Len(results) > 0
  /\ \E i \in 1..Len(results) : results[i].bib # None
  /\ undelayed = {[kind |-> "listing", attempt |-> 1]}

\* C7: a citation body wrapped in <html><pre>...</pre></html> is stored as the
\* same text as the bare body: for every citation text c with '@' and '{'.
C7_WrappedStoredAsBare ==
  pc = "cited" =>
    \A c \in Citations : body = Wrap(c) => stored = StoreCitation(venue, c)

\* the citation the claim describes for a body
ClaimedCitation(txt) ==
  LET t == IF Contains(txt, "@") /\ Contains(txt, "{") THEN strip(txt)
           ELSE IF HasPre(txt) THEN strip(PreText(txt)) ELSE strip(txt)
  IN IF t = <<>> THEN None ELSE Some(t)

\* C8: in every script that fetches citations the stored citation is the
\* trimmed body when it holds '@' and '{', else the text of the first <pre>,
\* else the trimmed body, and null whenever that text is empty.
C8_StoredCitation == pc = "cited" => stored = ClaimedCitation(body)

\* C9: whenever the citation fetch of a link fails, the link's record is in
\* the results with a null citation and a warning was logged for the link.
C9_BibFailureWarns ==
  \A u \in bibfailed :
    /\ \E i \in 1..Len(results) : results[i] = Rec(u, None)
    /\ \E j \in 1..Len(log) : log[j] = Warn("bibtex", u)

\* C10: the link extractor returns exactly one URL per distinct paper that the
\* page links to, whatever variants of the paper's URL the anchors use.
C10_OnePerPaper ==
  pc = "extracted" =>
    Len(links) = Cardinality({links[i].id : i \in 1..Len(links)})

\* C11: no two records of a run have the same link, and no detail URL is the
\* target of a second detail fetch: a link whose fetch is about to start has
\* not been requested before, whatever duplicates the pages list.
C11_UniqueLinks ==
  /\ \A i, j \in 1..Len(results) : i # j => results[i].link # results[j].link
  /\ (pc = "detail" /\ call.result # "pending") => paper_urls[p_idx] \notin visited

\* a finished CVPR_ICCV run whose list page named the same link twice
C11_Witness ==
  /\ pc = "done" /\ venue = "CVPR"
  /\ Len(paper_urls) = 2 /\ paper_urls[1] = paper_urls[2]
  /\ Len(results) = 1 /\ visited = {paper_urls[1]}

\* an absolute link of the OpenReview site
IsAbsolute(v) == StartsWithSite(v)

\* C12: every record written to an output file has a link that is present and
\* an absolute URL (a missing title or other field does not matter).
C12_LinkPresentAbsolute ==
  pc = "saved" =>
    \A i \in 1..Len(json_data) :
      json_data[i].link # None /\ IsAbsolute(json_data[i].link[1])

\* the listing stage is over and found no page to go on with: the AAAI landing
\* page gave no section page, or no CVF list page gave an entry
NoSubListing ==
  \/ venue = "AAAI" /\ pc \notin {"start", "listing", "crashed"} /\ track_urls = <<>>
  \/ venue = "CVPR" /\ pc \in Finished /\ paper_urls = <<>>

\* C13: when the listing stage discovers no section page the run ends with zero
\* records and a diagnostic, and no section, detail or citation request was
\* issued after the listing fetch.
C13_NoSectionNoRecords ==
  NoSubListing =>
    /\ pc \in Finished /\ results = <<>> /\ diag # "none"
    /\ issued = {"listing"}

\* C14: an attempt of polite_get succeeds only with status 200: the call has
\* returned exactly when its last attempt got a 200, no attempt before the
\* last got one (nothing is requested after the first 200), and after an
\* exception or a non-200 status the call goes on while attempts remain.
C14_SuccessOnly200 ==
  LET os == call.outcomes
      n == Len(os)
  IN /\ (call.result = "ok") <=> (n > 0 /\ os[n] = "ok")
     /\ \A i \in 1..(n - 1) : os[i] # "ok"
     /\ (n > 0 /\ os[n] # "ok" /\ n < retries) => call.result = "pending"

\* a call that returned on its third attempt, after an exception and a non-200
C14_Witness ==
  call.result = "ok" /\ call.outcomes = <<"exc", "http", "ok">>

\* the delay polite_get adds in a step that makes an attempt
AttemptDelay == call'.delay - (IF call.result = "pending" THEN call.delay ELSE 0)

\* C15 as stated: the delay after attempt n is n units of the base delay, and
\* there is a delay only when another attempt follows.
C15_DelayOnlyBeforeNext ==
  [][call' # call =>
       AttemptDelay = IF call'.result = "pending" THEN Len(call'.outcomes) ELSE 0]_vars

\* C15 amended: the delay after failed attempt n is n units of the base delay
\* for every n in 1..retries, the last attempt included (after it no attempt
\* follows and the failure is raised); only a successful attempt has no delay
\* after it.
C15_DelayAfterEveryFailure ==
  [][call' # call =>
       AttemptDelay = IF call'.result = "ok" THEN 0 ELSE Len(call'.outcomes)]_vars

\* a call that failed twice and went on: 1 + 2 units of delay so far
C15_Witness ==
  /\ Len(call.outcomes) = 2 /\ call.result = "pending" /\ call.delay = 3

\* the page has a citation_title tag with content
HasMetaTitle == detail.meta_title # None /\ detail.meta_title[1] # <<>>
\* the trimmed content of the tag, and the text of the heading
MetaText == strip(TextOf(detail.meta_title))
HeadingText == TextOf(detail.heading)

\* no candidate for the title has text
NoCandidateText ==
  /\ MetaText = <<>> /\ HeadingText = <<>>
  /\ ~IsLong(TextOf(detail.bold)) /\ detail.line = None

KeywordSource ==
  LET metas == SelectSeq(StripNonEmpty(detail.kw_meta), LAMBDA t : t # <<>>)
  IN IF venue = "ECCV" THEN <<>>
     ELSE IF metas # <<>> THEN metas ELSE BadgeTexts(detail)

\* the entries of ks whose text did not occur earlier in ks, in the order of ks
RECURSIVE FirstSeen(_, _)
FirstSeen(ks, before) ==
  IF ks = <<>> THEN <<>>
  ELSE (IF Head(ks) \in before THEN <<>> ELSE <<Head(ks)>>)
       \o FirstSeen(Tail(ks), before \cup {Head(ks)})

\* C17: the keywords of a record hold no entry twice and keep the first-seen
\* order of the page's keywords, whether they come from the metadata tags or
\* from the badges.
C17_KeywordsDeduped ==
  pc = "parsed" =>
    /\ \A i, j \in 1..Len(rec.keywords) : i # j => rec.keywords[i] # rec.keywords[j]
    /\ rec.keywords = FirstSeen(KeywordSource, {})

\* C18: with an override URL the first request of the run goes to exactly that
\* URL, with or without a trailing slash; the year-derived default is used
\* only without an override.
C18_OverrideVerbatim ==
  pc = "resolved" =>
    base_url = IF proceeding_url # None THEN proceeding_url
               ELSE Some(proceeding_url_for(year))

\* C19: when the operator stops a run, no request is issued after the stop and
\* the records collected so far are delivered to the output.
C19_StopKeepsRecords ==
  /\ [](pc = "interrupted" => output = Some(results))
  /\ [][pc = "interrupted" => (call' = call /\ issued' = issued)]_vars

\* the run is over: the file is written, or an exception or the operator's
\* stop ended the process
Terminal == {"done", "crashed", "interrupted"}

\* C20: whatever the pages, the retry count and the failures, a run eventually
\* reaches a terminal state.
C20_Terminates == <>(pc \in Terminal)

\* a finished AAAI run in which a section page, a detail page and a citation
\* failed on all their attempts
C20_Witness ==
  /\ pc = "done" /\ venue = "AAAI" /\ retries = MaxRetries
  /\ trackfailed # {} /\ failed # {} /\ bibfailed # {}

\* a step of the run that issues a request: every step of the fetch actions
RequestStep == pc \in {"listing", "track", "detail", "bib"} /\ pc' # "interrupted"

\* C21: every request of a run is followed by a delay before the next one: no
\* request but the first of the run is issued without a sleep since the
\* request before it, the fallback listing URL included.
C21_NoBackToBack == [][(RequestStep /\ issued # {}) => slept]_vars

\* C22: the detail stage is entered only with a non-empty link list: a detail
\* or citation request is issued only when links were collected; with none (also
\* when every section page failed) the run takes the early exit, which prints
\* its message in the AAAI, ACL, EMNLP and ECCV scripts, and has zero records.
C22_NoLinksEarlyExit ==
  /\ (pc \in {"detail", "bib"} \/ issued \cap {"detail", "bib"} # {}) => paper_urls # <<>>
  /\ (pc \in Finished /\ paper_urls = <<>>) =>
       /\ results = <<>>
       /\ venue # "CVPR" => diag \in {"no_tracks", "no_papers"}
       /\ (venue = "AAAI" /\ track_urls # <<>>) => diag = "no_papers"

\* a finished AAAI run whose section pages all failed on every attempt
C22_Witness ==
  /\ pc = "done" /\ venue = "AAAI"
  /\ Len(track_urls) = 2 /\ trackfailed = Range(track_urls)
  /\ paper_urls = <<>> /\ diag = "no_papers" /\ output = Some(<<>>)

\* the block the extraction cascade takes: the first candidate that has text
FirstBlock ==
  IF venue = "AAAI"
  THEN LET m == IF abspage.meta = None THEN 0 ELSE abspage.meta[1].len
           p == IF abspage.node = None \/ abspage.node[1].para = None THEN 0
                ELSE abspage.node[1].para[1]
           n == IF abspage.node = None THEN 0 ELSE abspage.node[1].text
       IN IF m > 0 THEN Some(Text("meta", m))
          ELSE IF p > 0 THEN Some(Text("para", p))
          ELSE IF n > 0 THEN Some(Text("node", n)) ELSE None
  ELSE IF abspage.label /\ abspage.sib > 0 THEN Some(Text("sib", abspage.sib))
       ELSE IF abspage.word # None /\ abspage.word[1] > 0
            THEN Some(Text("word", abspage.word[1])) ELSE None

\* C23: the abstract is null when no candidate yields text; otherwise it is
\* the block taken with exactly its first 9 characters removed, whichever step
\* supplied the block; and it is never the empty string.
C23_AbstractCut ==
  pc = "abstracted" =>
    /\ FirstBlock = None => abstract = None
    /\ FirstBlock # None =>
         abstract = Some([src |-> FirstBlock[1].src, from |-> CutLen,
                          len |-> FirstBlock[1].len - CutLen])
    /\ abstract # None => abstract[1].len > 0

\* C24: the session is opened at the start of the crawl, is open while the
\* crawl issues requests, and is closed on every way out of the crawl
\* function: its return at the end, each early return, an exception that
\* escapes it; no terminal state has the session open.
C24_SessionClosed ==
  /\ pc \in {"listing", "track", "detail", "bib"} => session = "open"
  /\ pc \in {"returned", "done", "crashed", "interrupted"} => session # "open"
  /\ pc \in {"returned", "done", "crashed"} => session = "closed"

\* the root listing failed on every attempt and the exception left the crawl
C24_Witness ==
  /\ pc = "crashed" /\ session = "closed"
  /\ call.result \in {"exc", "runtime"} /\ Len(call.outcomes) = retries

\* C25: without an override the default listing URL carries the edition number
\* (year - 1980) + 1, the rule the comment of proceeding_url_for gives, and is
\* a function of the year alone.
C25_EditionFromComment ==
  (pc = "resolved" /\ proceeding_url = None) =>
    /\ base_url # None
    /\ base_url[1].year = year
    /\ base_url[1].num = (year - 1980) + 1

LinksOf(recs) == [i \in 1..Len(recs) |-> recs[i].link]
StrictlyAscending(ls) ==
  \A i, j \in 1..Len(ls) : i < j => UrlKey(ls[i]) < UrlKey(ls[j])

\* C26: the records AAAI, ACL, EMNLP and ECCV return are in strictly ascending
\* order of link: their links are the sorted link list without repeats, with
\* exactly the links whose detail step failed taken out, whichever links fail.
C26_AscendingLinks ==
  (venue \in LoopVenues /\ pc \in Finished) =>
    LET Kept(u) == u \notin FailedUrls IN
    /\ StrictlyAscending(paper_urls)
    /\ LinksOf(results) = SelectSeq(paper_urls, Kept)
    /\ StrictlyAscending(LinksOf(results))

\* three links from two section pages, the middle one failed
C26_Witness ==
  /\ venue = "AAAI" /\ pc = "returned"
  /\ Len(paper_urls) = 3
  /\ FailedUrls = {paper_urls[2]}
  /\ LinksOf(results) = <<paper_urls[1], paper_urls[3]>>

\* the attempts a call has made, and whether it has raised
Attempts == Len(call.outcomes)
CallFailed == call.result \in {"exc", "runtime"}

\* C27: polite_get sleeps k units of the base delay after failed attempt k, the
\* last one included: a call that raises has made `retries` attempts and slept
\* retries * (retries + 1) / 2 units in all, a call that returns on attempt k
\* has slept k * (k - 1) / 2 units, and a call still in its loop after k
\* failures k * (k + 1) / 2.
C27_TotalDelay ==
  /\ CallFailed =>
       /\ Attempts = retries
       /\ 2 * call.delay = retries * (retries + 1)
  /\ call.result = "ok" => 2 * call.delay = Attempts * (Attempts - 1)
  /\ call.result = "pending" => 2 * call.delay = Attempts * (Attempts + 1)

\* CVPR_ICCV's three attempts all failed: 1 + 2 + 3 units before the raise
C27_Witness ==
  /\ CallFailed /\ retries = 3 /\ Attempts = 3 /\ call.delay = 6

\* a page of a non-empty result list is on screen
ShowsPage == results_box # None /\ results_box[1].kind = "page"

\* C28: with a non-empty result list, after any sequence of Previous and Next
\* clicks the stored page number is the number of the page on screen and lies
\* in 1..total_pages.
C28_StoredIsShown ==
  (n_records > 0 /\ ShowsPage) =>
    /\ page_state = results_box[1].page
    /\ page_state \in 1..TotalPages(n_records)

\* the order of the sources, and what the i-th query of the call gave
SourceOrder == <<"v2/Submission", "v1/Blind_Submission", "v1/submission">>
YieldOf(i) == Yield(IF i = 1 THEN "v2" ELSE "v1", queried[i].answer, conf_name, state)
Barren(i) == ~HasNotes(YieldOf(i))

\* C29: get_submissions queries API v2 Submission, API v1 Blind_Submission and
\* API v1 lowercase submission in that order; a source is queried only after
\* every earlier one failed or gave no notes (after the ICLR Accepted filter);
\* the call returns the notes of the first source that gave some, the empty
\* list when none did, and ends by returning in every case.
C29_FirstSourceWithNotes ==
  /\ pc \in {"v2", "v1client", "v1", "got"}
  /\ Len(queried) <= Len(SourceOrder)
  /\ \A i \in 1..Len(queried) : queried[i].inv = SourceOrder[i]
  /\ \A i \in 1..(Len(queried) - 1) : Barren(i)
  /\ pc = "got" =>
       LET n == Len(queried) IN
       /\ n >= 1 /\ found # None
       /\ ~Barren(n) => found = YieldOf(n)
       /\ Barren(n) => (found = Some(<<>>) /\ (n = Len(SourceOrder) \/ inv_idx = 0))

\* ICLR, Accepted: v2 raised, Blind_Submission held only a note still under
\* submission, the lowercase invitation gave an accepted note
C29_Witness ==
  /\ pc = "got" /\ conf_name = "ICLR" /\ state = "Accepted"
  /\ Len(queried) = 3
  /\ queried[1].answer.raised
  /\ queried[2].answer.notes = <<"submitted">>
  /\ queried[3].answer.notes = <<"submitted", "poster">>
  /\ found = Some(<<"poster">>)

====
